---- MODULE Spec2Model ----
(***************************************************************************)
(* The job pipeline of backend/queue_manager.py: the progress ledger       *)
(* (QueueManager.downloads under downloads_lock), the three thread pools,  *)
(* admission (add_download_job), the stage bodies (_download_task,         *)
(* _convert_task, _transcribe_task) and clear_finished_progress, with the  *)
(* adapters download_video and convert_video they call.                    *)
(*                                                                         *)
(* TaskProgress.timestamp is wall-clock time and is left out of the        *)
(* record: no operation reads it.                                          *)
(***************************************************************************)
EXTENDS Integers, Sequences, FiniteSets, TLC

VARIABLES
    urls,                    \* the URLs the clients of a behaviour ask for (fixed)
    downloads,               \* QueueManager.downloads: url -> TaskProgress
    enable_transcription,    \* QueueManager.enable_transcription
    download_executor,       \* [queue, workers]: pending and running _download_task units
    conversion_executor,     \* [queue, workers]: pending and running _convert_task units
    transcription_executor,  \* [queue, workers]: pending and running _transcribe_task units
    call,                    \* per caller thread: its position inside add_download_job
    jobs,                    \* number of add_download_job calls admitted past is_url_active
    ret,                     \* history: the last value add_download_job returned
    clears,                  \* history: returns of the clear_finished_progress calls made
                             \*          in a row since the last ledger write (last two)
    last_call,               \* history (LedgerSpec): the last update_progress(url, **kwargs)
    shutdown_pc,             \* the position of the thread calling QueueManager.shutdown
    whisper_model,           \* whisper_transcriber._whisper_model
    transcribers,            \* per thread inside transcribe_video_with_whisper: its position
    loads,                   \* history: whisper.load_model calls begun since the last
                             \*          unload_whisper_model call
    accepted,                \* history: the urls add_download_job has returned True for
    unloads,                 \* history: unload_whisper_model calls made in a row (up to 2)
    snapshot,                \* what the last get_progress / get_all_progress returned
    downloads_lock,          \* QueueManager.downloads_lock: the thread holding it, or None
    threads                  \* (LockSpec) per thread: its position relative to the lock

vars == <<urls, downloads, enable_transcription, download_executor, conversion_executor,
          transcription_executor, call, jobs, ret, clears, last_call, shutdown_pc,
          whisper_model, transcribers, loads, accepted, unloads, snapshot,
          downloads_lock, threads>>

-----------------------------------------------------------------------------
(* Bounds of the model *)

\* add_download_job calls that pass the is_url_active check in one behaviour
MaxJobs == 3

\* whisper.load_model calls begun between two unload_whisper_model calls
MaxLoads == 3

-----------------------------------------------------------------------------
(* TaskStatus *)

QUEUED == "queued"
DOWNLOADING == "downloading"
DOWNLOAD_COMPLETED == "download_completed"
CONVERTING == "converting"
TRANSCRIBING == "transcribing"
FINALIZED == "finalized"
FAILED == "failed"
SKIPPED == "skipped"

TaskStatus ==
    {QUEUED, DOWNLOADING, DOWNLOAD_COMPLETED, CONVERTING, TRANSCRIBING,
     FINALIZED, FAILED, SKIPPED}

\* Python's None in an Optional[str] field (no str value of the model equals it)
None == "<None>"

\* TaskProgress(status=..., message=...): the dataclass defaults; __post_init__
\* turns empty optional strings into None, and the defaults are None already
TaskProgress(status, message) ==
    [status |-> status,
     progress_percentage |-> 0,
     download_speed |-> None,
     eta |-> None,
     error_message |-> None,
     output_path |-> None,
     message |-> message,
     filename |-> None]

-----------------------------------------------------------------------------
(* QueueManager.update_progress *)

\* for field, value in kwargs.items(): if hasattr(current, field): setattr(...)
\* setattr stores the value as given: __post_init__ does not run again
SetFields(current, kwargs) ==
    [f \in DOMAIN current |-> IF f \in DOMAIN kwargs THEN kwargs[f] ELSE current[f]]

\* faulty variant: eta is not cleared
ClearSpeedOnly(current) ==
    IF current.status # DOWNLOADING
    THEN [current EXCEPT !.download_speed = None]
    ELSE current

\* if current.status != DOWNLOADING: clear download_speed and eta
ClearSpeedEta(current) ==
    IF current.status # DOWNLOADING
    THEN [current EXCEPT !.download_speed = None, !.eta = None]
    ELSE current

\* if current.status == FAILED: progress 0 and a message when error_message is None;
\* else: error_message = None
FailedRule(current) ==
    IF current.status = FAILED
    THEN [current EXCEPT !.progress_percentage = 0,
                         !.error_message =
                             IF @ = None THEN "An unknown error occurred." ELSE @]
    ELSE [current EXCEPT !.error_message = None]

\* faulty variant: only FINALIZED counts as final
FinalRuleFinalizedOnly(current) ==
    IF current.status = FINALIZED
    THEN [current EXCEPT !.progress_percentage = 100]
    ELSE current

\* if current.status in {FINALIZED, SKIPPED, DOWNLOAD_COMPLETED}: progress 100
FinalRule(current) ==
    IF current.status \in {FINALIZED, SKIPPED, DOWNLOAD_COMPLETED}
    THEN [current EXCEPT !.progress_percentage = 100]
    ELSE current

\* faulty variant: output_path is kept
QueuedRuleKeepsOutputPath(current) ==
    IF current.status = QUEUED
    THEN [current EXCEPT !.progress_percentage = 0]
    ELSE current

\* if current.status == QUEUED: progress 0 and output_path None
QueuedRule(current) ==
    IF current.status = QUEUED
    THEN [current EXCEPT !.progress_percentage = 0, !.output_path = None]
    ELSE current

\* faulty variant: the record is initialised anew on every call
update_progress_always_new(d, url, kwargs) ==
    LET updated == QueuedRule(FinalRule(FailedRule(ClearSpeedEta(
                       SetFields(TaskProgress(QUEUED, "Queued."), kwargs)))))
    IN  [u \in DOMAIN d \cup {url} |-> IF u = url THEN updated ELSE d[u]]

\* the ledger after update_progress(url, **kwargs) on ledger d
update_progress(d, url, kwargs) ==
    LET current == IF url \in DOMAIN d THEN d[url]
                   ELSE TaskProgress(QUEUED, "Queued.")
        updated == QueuedRule(FinalRule(FailedRule(ClearSpeedEta(
                       SetFields(current, kwargs)))))
    IN  [u \in DOMAIN d \cup {url} |-> IF u = url THEN updated ELSE d[u]]

-----------------------------------------------------------------------------
(* QueueManager.clear_finished_progress *)

\* faulty variant: DOWNLOAD_COMPLETED taken for a final status
final_statuses_with_completed == {FINALIZED, FAILED, SKIPPED, DOWNLOAD_COMPLETED}

final_statuses == {FINALIZED, FAILED, SKIPPED}

\* faulty variant: every record is removed
urls_to_remove_all(d) == DOMAIN d

urls_to_remove(d) == {url \in DOMAIN d : d[url].status \in final_statuses}

\* faulty variant: the loop stops after the first del
RemoveFirstUrl(d, removed) ==
    IF removed = {} THEN d
    ELSE [u \in DOMAIN d \ {CHOOSE url \in removed : TRUE} |-> d[u]]

\* the ledger after the del loop
RemoveUrls(d, removed) == [u \in DOMAIN d \ removed |-> d[u]]

\* keep the returns of the last two calls made in a row
LogClear(n) == IF Len(clears) < 2 THEN Append(clears, n) ELSE <<clears[2], n>>

-----------------------------------------------------------------------------
(* QueueManager.is_url_active *)

\* faulty variant: a failed job counts as active
active_statuses_with_failed ==
    {QUEUED, DOWNLOADING, DOWNLOAD_COMPLETED, CONVERTING, TRANSCRIBING, FAILED}

\* faulty variant: QUEUED left out
active_statuses_without_queued ==
    {DOWNLOADING, DOWNLOAD_COMPLETED, CONVERTING, TRANSCRIBING}

active_statuses == {QUEUED, DOWNLOADING, DOWNLOAD_COMPLETED, CONVERTING, TRANSCRIBING}

is_url_active(d, url) == url \in DOMAIN d /\ d[url].status \in active_statuses

-----------------------------------------------------------------------------
(* The job keys and the paths of the model *)

UrlPrefix == "http://host/"
FileNames == {"a.mkv", "b.mp4"}
Keys == {UrlPrefix \o n : n \in FileNames}

\* a file whose extension is in upper case
UpperCaseNames == {"b.MP4"}

\* the path argument of add_download_job (the validated target directory)
SavePath == "/mnt/drive/Media"


\* os.path.join, os.path.split and os.path.splitext on the paths of the model
join(folder, name) == folder \o "/" \o name
split(path) == CHOOSE fn \in {SavePath} \X (FileNames \cup UpperCaseNames \cup {"a.mp4", "b.mp4"}) :
                   join(fn[1], fn[2]) = path
splitext(name) == CHOOSE be \in {"a", "b"} \X {".mkv", ".mp4", ".MP4"} :
                      be[1] \o be[2] = name
lower(ext) == IF ext = ".MP4" THEN ".mp4" ELSE ext

\* f"{value:.1f}" and f"{value:.2f}" of a whole number
Fmt1(value) == ToString(value) \o ".0"
Fmt2(value) == ToString(value) \o ".00"

-----------------------------------------------------------------------------
(* downloader.download_video *)

\* the file name the downloader derives: url.split('?')[0].split('/')[-1],
\* sanitized (the names of the model hold nothing the sanitizer strips)
FileNameOf(url) == CHOOSE n \in FileNames \cup UpperCaseNames : url = UrlPrefix \o n

\* the path download_video returns on success
download_video(url, save_path) == join(save_path, FileNameOf(url))

\* what progress_callback(percentage, speed, eta) is called with: percentage is
\* bytes_downloaded / content-length * 100, eta is None while speed_bps is 0
DownloadPercents == {50}
DownloadSpeeds == {"1.00 MB/s"}
DownloadEtas == {"0m 5s"}

\* str(e) of the exception download_video raises
DownloadErrors == {"", "timed out"}

-----------------------------------------------------------------------------
(* converter.convert_video *)

\* how the ffprobe/ffmpeg run inside the try block ends; "cleanup_error" is
\* os.remove(progress_file_path) raising in the finally clause
FfmpegRuns == {"done", "called_process_error", "cleanup_error"}

\* the value convert_video(folder, name) returns, or [status |-> "raise"] when an
\* exception leaves it; file_exists is os.path.exists(filepath) on entry and
\* output_exists the later os.path.exists(output_filepath), a call of its own
\* also when the two paths are the same (the file can be gone by then)
convert_video(folder, name, file_exists, output_exists, run) ==
    LET filepath == join(folder, name)
        se == splitext(name)
        output_filepath == join(folder, se[1] \o ".mp4")
        out_exists == output_exists
    IN  IF ~file_exists
        THEN [status |-> "failed", error |-> "file_not_found",
              message |-> "File not found for conversion: " \o filepath]
        ELSE IF lower(se[2]) = ".mp4"
        THEN IF filepath = output_filepath /\ out_exists
             THEN [status |-> "skipped", message |-> "File is already an MP4!",
                   output_file |-> output_filepath]
             ELSE [status |-> "converted",
                   message |-> "Already MP4, no re-conversion needed.",
                   output_file |-> filepath]
        ELSE IF out_exists
        THEN [status |-> "skipped",
              message |-> "Output file already exists: " \o output_filepath]
        ELSE CASE run = "done" ->
                    [status |-> "success", output_file |-> output_filepath,
                     message |-> "Converted!"]
               [] run = "called_process_error" ->
                    [status |-> "failed", error |-> "conversion_error",
                     message |-> "Conversion failed for " \o filepath]
               [] run = "cleanup_error" ->
                    [status |-> "raise", exc |-> "[Errno 13] Permission denied"]

\* whether convert_video reaches the ffmpeg run (and so may call progress_callback)
RunsFfmpeg(folder, name, file_exists, output_exists) ==
    /\ file_exists
    /\ lower(splitext(name)[2]) # ".mp4"
    /\ ~output_exists

\* what conversion_progress_callback(percentage) is called with
ConvertPercents == {50}

-----------------------------------------------------------------------------
(* ThreadPoolExecutor: a FIFO queue of work items and at most max_workers *)
(* threads, each running one item at a time                               *)

max_download_workers == 1
max_conversion_workers == 4
max_transcription_workers == 2

\* is_shutdown is the flag ThreadPoolExecutor.shutdown sets
NewExecutor == [queue |-> <<>>, workers |-> {}, is_shutdown |-> FALSE]

\* faulty variant: the work item is queued twice
submit_twice(executor, unit) == [executor EXCEPT !.queue = Append(Append(@, unit), unit)]

\* executor.submit(fn, ...) on an executor that takes work
submit(executor, unit) == [executor EXCEPT !.queue = Append(@, unit)]

\* str() of the RuntimeError executor.submit raises once shutdown was called on it
SubmitError == "cannot schedule new futures after shutdown"

\* faulty variant: a thread is found for every queued item
CanStartIgnoringMax(executor, max_workers) == executor.queue # <<>>

\* a free thread can take the head of the queue
CanStart(executor, max_workers) ==
    executor.queue # <<>> /\ Cardinality(executor.workers) < max_workers

\* a thread takes the head of the queue
Start(executor) ==
    [executor EXCEPT !.queue = Tail(@),
                     !.workers = @ \cup {Head(executor.queue)}]

\* the thread running unit returns from it
Finish(executor, unit) == [executor EXCEPT !.workers = @ \ {unit}]

\* the thread running unit goes on with it as unit2
Continue(executor, unit, unit2) ==
    [executor EXCEPT !.workers = (@ \ {unit}) \cup {unit2}]

\* every unit of an executor, queued or running
Units(executor) ==
    {executor.queue[i] : i \in 1..Len(executor.queue)} \cup executor.workers

\* self.update_progress(url, **kwargs): a ledger write ends a row of clears
Upsert(url, kwargs) ==
    /\ downloads' = update_progress(downloads, url, kwargs)
    /\ clears' = <<>>

\* two update_progress calls of one thread that nothing is modelled between
UpsertTwice(url, kwargs, kwargs2) ==
    /\ downloads' = update_progress(update_progress(downloads, url, kwargs),
                                    url, kwargs2)
    /\ clears' = <<>>

Idle == [pc |-> "idle"]

-----------------------------------------------------------------------------
(* QueueManager.add_download_job(url, path), called by thread c.  The lock *)
(* is taken by is_url_active and again by update_progress, so the call is  *)
(* two steps: the check, then the write (with the enqueue and the return). *)

\* is_url_active(url) returned True
SubmitCheckActive(c, url) ==
    /\ call[c].pc = "idle"
    /\ is_url_active(downloads, url)
    /\ call' = [call EXCEPT ![c] = [pc |-> "reject", url |-> url]]
    /\ UNCHANGED <<urls, unloads, snapshot, downloads_lock, threads, shutdown_pc,
                   whisper_model, transcribers, loads, accepted,
                   downloads, enable_transcription, download_executor,
                   conversion_executor, transcription_executor, jobs, ret, clears,
                   last_call>>

\* is_url_active(url) returned False
SubmitCheckInactive(c, url) ==
    /\ call[c].pc = "idle"
    /\ ~is_url_active(downloads, url)
    /\ jobs < MaxJobs
    /\ jobs' = jobs + 1
    /\ call' = [call EXCEPT ![c] = [pc |-> "accept", url |-> url, job |-> jobs + 1]]
    /\ UNCHANGED <<urls, unloads, snapshot, downloads_lock, threads, shutdown_pc,
                   whisper_model, transcribers, loads, accepted,
                   downloads, enable_transcription, download_executor,
                   conversion_executor, transcription_executor, ret, clears, last_call>>

\* update_progress(url, message="Already in progress."); return False
SubmitReject(c) ==
    /\ call[c].pc = "reject"
    /\ Upsert(call[c].url, [message |-> "Already in progress."])
    /\ ret' = "False"
    /\ call' = [call EXCEPT ![c] = Idle]
    /\ UNCHANGED <<urls, unloads, snapshot, downloads_lock, threads, shutdown_pc,
                   whisper_model, transcribers, loads, accepted,
                   enable_transcription, download_executor, conversion_executor,
                   transcription_executor, jobs, last_call>>

\* update_progress(url, status=QUEUED, ...); download_executor.submit(...); return True
\* (the RuntimeError of submit leaves add_download_job, after the update_progress)
SubmitAccept(c) ==
    /\ call[c].pc = "accept"
    /\ Upsert(call[c].url,
              [status |-> QUEUED, progress_percentage |-> 0,
               message |-> "Download queued.", filename |-> None])
    /\ IF download_executor.is_shutdown
       THEN /\ download_executor' = download_executor
            /\ ret' = "RuntimeError"
       ELSE /\ download_executor' =
                   submit(download_executor,
                          [job |-> call[c].job, url |-> call[c].url, path |-> SavePath])
            /\ ret' = "True"
    /\ accepted' = IF download_executor.is_shutdown THEN accepted
                   ELSE accepted \cup {call[c].url}
    /\ call' = [call EXCEPT ![c] = Idle]
    /\ UNCHANGED <<urls, unloads, snapshot, downloads_lock, threads, shutdown_pc,
                   whisper_model, transcribers, loads,
                   enable_transcription, conversion_executor, transcription_executor,
                   jobs, last_call>>

-----------------------------------------------------------------------------
(* QueueManager._download_task(url, path) *)

\* a download thread takes the unit and upserts DOWNLOADING
DownloadStart ==
    /\ CanStart(download_executor, max_download_workers)
    /\ download_executor' = Start(download_executor)
    /\ Upsert(Head(download_executor.queue).url,
              [status |-> DOWNLOADING, message |-> "Starting download...",
               progress_percentage |-> 0])
    /\ UNCHANGED <<urls, unloads, snapshot, downloads_lock, threads, shutdown_pc,
                   whisper_model, transcribers, loads, accepted,
                   enable_transcription, conversion_executor, transcription_executor,
                   call, jobs, ret, last_call>>

\* download_video calls progress_callback(progress_val, speed, eta)
DownloadTick(unit, progress_val, speed, eta) ==
    /\ unit \in download_executor.workers
    /\ Upsert(unit.url,
              [progress_percentage |-> progress_val, download_speed |-> speed,
               eta |-> eta,
               message |-> "Downloading: " \o Fmt1(progress_val) \o "%"])
    /\ UNCHANGED <<urls, unloads, snapshot, downloads_lock, threads, shutdown_pc,
                   whisper_model, transcribers, loads, accepted,
                   enable_transcription, download_executor, conversion_executor,
                   transcription_executor, call, jobs, ret, last_call>>

\* faulty variant: the exception's text is left out
DownloadErrorWithoutCause(url, e) ==
    LET error_msg == "Download failed for " \o url
    IN  [status |-> FAILED, error_message |-> error_msg,
         message |-> error_msg, progress_percentage |-> 0]

\* the update_progress of the except branch of _download_task for an exception
\* whose str() is e
DownloadError(url, e) ==
    LET error_msg == "Download failed for " \o url \o ": " \o e
    IN  [status |-> FAILED, error_message |-> error_msg,
         message |-> error_msg, progress_percentage |-> 0]

\* download_video returns: upsert DOWNLOAD_COMPLETED, queue the conversion (a
\* RuntimeError of the submit goes to the except branch)
DownloadSuccess(unit) ==
    /\ unit \in download_executor.workers
    /\ LET downloaded_filepath == download_video(unit.url, unit.path)
           completed == [status |-> DOWNLOAD_COMPLETED,
                         output_path |-> downloaded_filepath,
                         message |-> "Download completed. Queueing for conversion...",
                         progress_percentage |-> 100,
                         download_speed |-> None,
                         eta |-> None,
                         filename |-> split(downloaded_filepath)[2]]
       IN  IF conversion_executor.is_shutdown
           THEN /\ UpsertTwice(unit.url, completed,
                               DownloadError(unit.url, SubmitError))
                /\ conversion_executor' = conversion_executor
           ELSE /\ Upsert(unit.url, completed)
                /\ conversion_executor' =
                       submit(conversion_executor,
                              [job |-> unit.job, url |-> unit.url,
                               path |-> downloaded_filepath, ran |-> FALSE])
    /\ download_executor' = Finish(download_executor, unit)
    /\ UNCHANGED <<urls, unloads, snapshot, downloads_lock, threads, shutdown_pc,
                   whisper_model, transcribers, loads, accepted,
                   enable_transcription, transcription_executor, call, jobs, ret,
                   last_call>>

\* download_video raises e: upsert FAILED
DownloadFail(unit, e) ==
    /\ unit \in download_executor.workers
    /\ Upsert(unit.url, DownloadError(unit.url, e))
    /\ download_executor' = Finish(download_executor, unit)
    /\ UNCHANGED <<urls, unloads, snapshot, downloads_lock, threads, shutdown_pc,
                   whisper_model, transcribers, loads, accepted,
                   enable_transcription, conversion_executor, transcription_executor,
                   call, jobs, ret, last_call>>

-----------------------------------------------------------------------------
(* QueueManager._convert_task(original_video_url, downloaded_filepath) *)

\* a conversion thread takes the unit and upserts CONVERTING
ConvertStart ==
    /\ CanStart(conversion_executor, max_conversion_workers)
    /\ conversion_executor' = Start(conversion_executor)
    /\ Upsert(Head(conversion_executor.queue).url,
              [status |-> CONVERTING, message |-> "Starting conversion...",
               progress_percentage |-> 0])
    /\ UNCHANGED <<urls, unloads, snapshot, downloads_lock, threads, shutdown_pc,
                   whisper_model, transcribers, loads, accepted,
                   enable_transcription, download_executor, transcription_executor,
                   call, jobs, ret, last_call>>

\* convert_video calls conversion_progress_callback(percentage) from its ffmpeg loop
ConvertTick(unit, percentage) ==
    /\ unit \in conversion_executor.workers
    /\ \E file_exists, output_exists \in BOOLEAN :
           RunsFfmpeg(split(unit.path)[1], split(unit.path)[2],
                      file_exists, output_exists)
    /\ Upsert(unit.url,
              [progress_percentage |-> percentage,
               message |-> "Converting: " \o Fmt2(percentage) \o "%"])
    /\ conversion_executor' =
           Continue(conversion_executor, unit, [unit EXCEPT !.ran = TRUE])
    /\ UNCHANGED <<urls, unloads, snapshot, downloads_lock, threads, shutdown_pc,
                   whisper_model, transcribers, loads, accepted,
                   enable_transcription, download_executor, transcription_executor,
                   call, jobs, ret, last_call>>

\* what the convert_video call of a running unit can end with; after a progress
\* callback it is one of the ends of the ffmpeg run
ConvertResults(unit) ==
    {convert_video(split(unit.path)[1], split(unit.path)[2],
                   io[1], io[2], io[3]) :
        io \in {x \in BOOLEAN \X BOOLEAN \X FfmpegRuns :
                   unit.ran => RunsFfmpeg(split(unit.path)[1], split(unit.path)[2],
                                          x[1], x[2])}}

\* faulty variant: the except branch writes the messages but not the status
ConvertSystemErrorNoStatus(downloaded_filepath, exc) ==
    LET error_msg == "Conversion system error for " \o downloaded_filepath
                         \o ": " \o exc
    IN  [kwargs |-> [error_message |-> error_msg, message |-> error_msg,
                     progress_percentage |-> 0],
         transcribe |-> None]

\* the except branch of _convert_task for an exception whose str() is exc: the
\* update_progress it makes and the file it queues for transcription (None: none)
ConvertSystemError(downloaded_filepath, exc) ==
    LET error_msg == "Conversion system error for " \o downloaded_filepath
                         \o ": " \o exc
    IN  [kwargs |-> [status |-> FAILED, error_message |-> error_msg,
                     message |-> error_msg, progress_percentage |-> 0],
         transcribe |-> None]

\* faulty variant: output_path stays the fetched file
ConvertSuccessKeepsFetchedPath(downloaded_filepath, conversion_result, transcription) ==
    IF transcription
    THEN [kwargs |-> [status |-> TRANSCRIBING,
                      message |-> "Conversion completed. Queueing for transcription...",
                      progress_percentage |-> 0,
                      output_path |-> downloaded_filepath],
          transcribe |-> downloaded_filepath]
    ELSE [kwargs |-> [status |-> FINALIZED,
                      message |-> "Processing completed!",
                      progress_percentage |-> 100,
                      output_path |-> downloaded_filepath],
          transcribe |-> None]

\* faulty variant: a converted file is always sent on to transcription
ConvertSuccessAlwaysTranscribes(downloaded_filepath, conversion_result, transcription) ==
    [kwargs |-> [status |-> TRANSCRIBING,
                 message |-> "Conversion completed. Queueing for transcription...",
                 progress_percentage |-> 0,
                 output_path |-> conversion_result.output_file],
     transcribe |-> conversion_result.output_file]

\* the branch for conversion_result["status"] == "success"
ConvertSuccess(downloaded_filepath, conversion_result, transcription) ==
    IF transcription
    THEN [kwargs |-> [status |-> TRANSCRIBING,
                      message |-> "Conversion completed. Queueing for transcription...",
                      progress_percentage |-> 0,
                      output_path |-> conversion_result.output_file],
          transcribe |-> conversion_result.output_file]
    ELSE [kwargs |-> [status |-> FINALIZED,
                      message |-> "Processing completed!",
                      progress_percentage |-> 100,
                      output_path |-> conversion_result.output_file],
          transcribe |-> None]

\* faulty variant: a skipped conversion is always sent on to transcription
ConvertSkippedAlwaysTranscribes(downloaded_filepath, conversion_result, transcription) ==
    [kwargs |-> [status |-> TRANSCRIBING,
                 message |-> "Conversion skipped. Queueing for transcription: "
                                 \o conversion_result.message,
                 progress_percentage |-> 0,
                 output_path |-> downloaded_filepath],
     transcribe |-> downloaded_filepath]

\* the branch for conversion_result["status"] == "skipped"
ConvertSkipped(downloaded_filepath, conversion_result, transcription) ==
    IF transcription
    THEN [kwargs |-> [status |-> TRANSCRIBING,
                      message |-> "Conversion skipped. Queueing for transcription: "
                                      \o conversion_result.message,
                      progress_percentage |-> 0,
                      output_path |-> downloaded_filepath],
          transcribe |-> downloaded_filepath]
    ELSE [kwargs |-> [status |-> SKIPPED,
                      message |-> "Conversion skipped: "
                                      \o conversion_result.message,
                      progress_percentage |-> 100,
                      output_path |-> downloaded_filepath],
          transcribe |-> None]

\* faulty variant: a failed result is reported like an exception
ConvertFailedAsSystemError(downloaded_filepath, conversion_result) ==
    ConvertSystemError(downloaded_filepath, conversion_result.message)

\* faulty variant: the KeyError leaves the body and nothing is written
ConvertFailedKeyErrorEscapes(downloaded_filepath, conversion_result) ==
    IF "error" \in DOMAIN conversion_result
    THEN [kwargs |-> [status |-> FAILED,
                      error_message |-> conversion_result.error,
                      message |-> conversion_result.message,
                      progress_percentage |-> 0],
          transcribe |-> None]
    ELSE [kwargs |-> [f \in {} |-> None], transcribe |-> None]

\* the else branch: it reads conversion_result["error"], a KeyError when the
\* result has no such key, which the except branch then handles
ConvertFailed(downloaded_filepath, conversion_result) ==
    IF "error" \in DOMAIN conversion_result
    THEN [kwargs |-> [status |-> FAILED,
                      error_message |-> conversion_result.error,
                      message |-> conversion_result.message,
                      progress_percentage |-> 0],
          transcribe |-> None]
    ELSE ConvertSystemError(downloaded_filepath, "'error'")

\* the body of _convert_task after the convert_video call
ConvertOutcome(downloaded_filepath, conversion_result, transcription) ==
    IF conversion_result.status = "raise"
    THEN ConvertSystemError(downloaded_filepath, conversion_result.exc)
    ELSE IF conversion_result.status = "success"
    THEN ConvertSuccess(downloaded_filepath, conversion_result, transcription)
    ELSE IF conversion_result.status = "skipped"
    THEN ConvertSkipped(downloaded_filepath, conversion_result, transcription)
    ELSE ConvertFailed(downloaded_filepath, conversion_result)

\* convert_video ends with conversion_result and the body handles it (a
\* RuntimeError of the submit goes to the except branch)
ConvertFinish(unit, conversion_result) ==
    /\ unit \in conversion_executor.workers
    /\ conversion_result \in ConvertResults(unit)
    /\ LET outcome == ConvertOutcome(unit.path, conversion_result, enable_transcription)
       IN  IF outcome.transcribe # None /\ transcription_executor.is_shutdown
           THEN /\ UpsertTwice(unit.url, outcome.kwargs,
                               ConvertSystemError(unit.path, SubmitError).kwargs)
                /\ transcription_executor' = transcription_executor
           ELSE /\ Upsert(unit.url, outcome.kwargs)
                /\ transcription_executor' =
                       IF outcome.transcribe = None
                       THEN transcription_executor
                       ELSE submit(transcription_executor,
                                   [job |-> unit.job, url |-> unit.url,
                                    path |-> outcome.transcribe])
    /\ conversion_executor' = Finish(conversion_executor, unit)
    /\ UNCHANGED <<urls, unloads, snapshot, downloads_lock, threads, shutdown_pc,
                   whisper_model, transcribers, loads, accepted,
                   enable_transcription, download_executor, call, jobs, ret, last_call>>

-----------------------------------------------------------------------------
(* QueueManager._transcribe_task(task_key, video_filepath) *)

\* a transcription thread takes the unit and upserts TRANSCRIBING
TranscribeStart ==
    /\ CanStart(transcription_executor, max_transcription_workers)
    /\ transcription_executor' = Start(transcription_executor)
    /\ Upsert(Head(transcription_executor.queue).url,
              [status |-> TRANSCRIBING, message |-> "Starting transcription...",
               progress_percentage |-> 0])
    /\ UNCHANGED <<urls, unloads, snapshot, downloads_lock, threads, shutdown_pc,
                   whisper_model, transcribers, loads, accepted,
                   enable_transcription, download_executor, conversion_executor,
                   call, jobs, ret, last_call>>

\* queue_manager.py imports download_video and convert_video only: the name
\* transcribe_video_with_whisper is not bound in the module, and calling it
\* raises NameError inside the try block
TranscribeCallError == "name 'transcribe_video_with_whisper' is not defined"

\* the update_progress _transcribe_task makes for the transcription_result the
\* adapter returns: FINALIZED on "success", else FAILED with the result's error
TranscribeResult(transcription_result) ==
    IF transcription_result.status = "success"
    THEN [status |-> FINALIZED, progress_percentage |-> 100,
          message |-> "Transcription completed. All processing finalized!"]
    ELSE [status |-> FAILED,
          error_message |-> IF "error" \in DOMAIN transcription_result
                            THEN transcription_result.error
                            ELSE "Unknown transcription error.",
          message |-> IF "message" \in DOMAIN transcription_result
                      THEN transcription_result.message
                      ELSE "Transcription failed.",
          progress_percentage |-> 0]

\* the except branch of _transcribe_task: upsert FAILED
TranscribeFinish(unit) ==
    /\ unit \in transcription_executor.workers
    /\ LET error_msg == "Transcription system error for " \o unit.path \o ": "
                            \o TranscribeCallError
       IN  Upsert(unit.url,
                  [status |-> FAILED, error_message |-> error_msg,
                   message |-> error_msg, progress_percentage |-> 0])
    /\ transcription_executor' = Finish(transcription_executor, unit)
    /\ UNCHANGED <<urls, unloads, snapshot, downloads_lock, threads, shutdown_pc,
                   whisper_model, transcribers, loads, accepted,
                   enable_transcription, download_executor, conversion_executor,
                   call, jobs, ret, last_call>>

-----------------------------------------------------------------------------
(* The other entry points *)

\* QueueManager.clear_finished_progress(), one critical section
ClearFinished ==
    /\ downloads' = RemoveUrls(downloads, urls_to_remove(downloads))
    /\ clears' = LogClear(Cardinality(urls_to_remove(downloads)))
    /\ UNCHANGED <<urls, unloads, snapshot, downloads_lock, threads, shutdown_pc,
                   whisper_model, transcribers, loads, accepted,
                   enable_transcription, download_executor, conversion_executor,
                   transcription_executor, call, jobs, ret, last_call>>

\* POST /queue/config: queue_manager.enable_transcription = enable_transcription
UpdateQueueConfig(enabled) ==
    /\ enable_transcription' = enabled
    /\ UNCHANGED <<urls, unloads, snapshot, downloads_lock, threads, shutdown_pc,
                   whisper_model, transcribers, loads, accepted,
                   downloads, download_executor, conversion_executor,
                   transcription_executor, call, jobs, ret, clears, last_call>>

\* QueueManager.shutdown(): executor.shutdown(wait=True) sets the executor's flag
\* and joins its threads, which run what is queued first.  The call enters and
\* sets the flag of download_executor ...
ShutdownCall ==
    /\ shutdown_pc = "idle"
    /\ shutdown_pc' = "download_executor"
    /\ download_executor' = [download_executor EXCEPT !.is_shutdown = TRUE]
    /\ UNCHANGED <<urls, unloads, snapshot, downloads_lock, threads, downloads,
                   enable_transcription, conversion_executor,
                   transcription_executor, call, jobs, ret, clears, last_call,
                   whisper_model, transcribers, loads, accepted>>

\* ... the join of download_executor returns; the flag of conversion_executor ...
ShutdownConversion ==
    /\ shutdown_pc = "download_executor"
    /\ Units(download_executor) = {}
    /\ shutdown_pc' = "conversion_executor"
    /\ conversion_executor' = [conversion_executor EXCEPT !.is_shutdown = TRUE]
    /\ UNCHANGED <<urls, unloads, snapshot, downloads_lock, threads, downloads,
                   enable_transcription, download_executor,
                   transcription_executor, call, jobs, ret, clears, last_call,
                   whisper_model, transcribers, loads, accepted>>

\* ... the join of conversion_executor returns; the flag of transcription_executor ...
ShutdownTranscription ==
    /\ shutdown_pc = "conversion_executor"
    /\ Units(conversion_executor) = {}
    /\ shutdown_pc' = "transcription_executor"
    /\ transcription_executor' = [transcription_executor EXCEPT !.is_shutdown = TRUE]
    /\ UNCHANGED <<urls, unloads, snapshot, downloads_lock, threads, downloads,
                   enable_transcription, download_executor,
                   conversion_executor, call, jobs, ret, clears, last_call,
                   whisper_model, transcribers, loads, accepted>>

\* ... the join of transcription_executor returns, and shutdown returns
ShutdownReturn ==
    /\ shutdown_pc = "transcription_executor"
    /\ Units(transcription_executor) = {}
    /\ shutdown_pc' = "returned"
    /\ UNCHANGED <<urls, unloads, snapshot, downloads_lock, threads, downloads,
                   enable_transcription, download_executor,
                   conversion_executor, transcription_executor, call, jobs, ret,
                   clears, last_call, whisper_model, transcribers, loads, accepted>>

-----------------------------------------------------------------------------
(* The pipeline *)

NoCall == [url |-> None, kwargs |-> [message |-> None]]

Init ==
    /\ urls = Keys
    /\ downloads = [u \in {} |-> TaskProgress(QUEUED, "Queued.")]
    /\ enable_transcription = FALSE
    /\ download_executor = NewExecutor
    /\ conversion_executor = NewExecutor
    /\ transcription_executor = NewExecutor
    /\ call = [c \in {"loop"} |-> Idle]
    /\ jobs = 0
    /\ ret = None
    /\ clears = <<>>
    /\ last_call = NoCall
    /\ shutdown_pc = "idle"
    /\ whisper_model = None
    /\ transcribers = [t \in {} |-> "idle"]
    /\ loads = 0
    /\ accepted = {}
    /\ unloads = 0
    /\ snapshot = <<>>
    /\ downloads_lock = None
    /\ threads = <<>>

Next ==
    \/ \E c \in DOMAIN call, url \in urls : SubmitCheckActive(c, url)
    \/ \E c \in DOMAIN call, url \in urls : SubmitCheckInactive(c, url)
    \/ \E c \in DOMAIN call : SubmitReject(c)
    \/ \E c \in DOMAIN call : SubmitAccept(c)
    \/ DownloadStart
    \/ \E unit \in download_executor.workers, progress_val \in DownloadPercents,
          speed \in DownloadSpeeds, eta \in DownloadEtas :
           DownloadTick(unit, progress_val, speed, eta)
    \/ \E unit \in download_executor.workers : DownloadSuccess(unit)
    \/ \E unit \in download_executor.workers, e \in DownloadErrors :
           DownloadFail(unit, e)
    \/ ConvertStart
    \/ \E unit \in conversion_executor.workers, percentage \in ConvertPercents :
           ConvertTick(unit, percentage)
    \/ \E unit \in conversion_executor.workers :
           \E conversion_result \in ConvertResults(unit) :
               ConvertFinish(unit, conversion_result)
    \/ TranscribeStart
    \/ \E unit \in transcription_executor.workers : TranscribeFinish(unit)
    \/ ClearFinished
    \/ \E enabled \in BOOLEAN : UpdateQueueConfig(enabled)
    \/ ShutdownCall
    \/ ShutdownConversion
    \/ ShutdownTranscription
    \/ ShutdownReturn

Spec == Init /\ [][Next]_vars

\* the pipeline with a source whose name ends in .MP4
Mp4Init ==
    /\ urls = {UrlPrefix \o "a.mkv", UrlPrefix \o "b.MP4"}
    /\ downloads = [u \in {} |-> TaskProgress(QUEUED, "Queued.")]
    /\ enable_transcription = FALSE
    /\ download_executor = NewExecutor
    /\ conversion_executor = NewExecutor
    /\ transcription_executor = NewExecutor
    /\ call = [c \in {"loop"} |-> Idle]
    /\ jobs = 0
    /\ ret = None
    /\ clears = <<>>
    /\ last_call = NoCall
    /\ shutdown_pc = "idle"
    /\ whisper_model = None
    /\ transcribers = [t \in {} |-> "idle"]
    /\ loads = 0
    /\ accepted = {}
    /\ unloads = 0
    /\ snapshot = <<>>
    /\ downloads_lock = None
    /\ threads = <<>>

Mp4Spec == Mp4Init /\ [][Next]_vars

\* add_download_job called from two threads at once
RaceInit ==
    /\ urls = {UrlPrefix \o "a.mkv"}
    /\ downloads = [u \in {} |-> TaskProgress(QUEUED, "Queued.")]
    /\ enable_transcription = FALSE
    /\ download_executor = NewExecutor
    /\ conversion_executor = NewExecutor
    /\ transcription_executor = NewExecutor
    /\ call = [c \in {"t1", "t2"} |-> Idle]
    /\ jobs = 0
    /\ ret = None
    /\ clears = <<>>
    /\ last_call = NoCall
    /\ shutdown_pc = "idle"
    /\ whisper_model = None
    /\ transcribers = [t \in {} |-> "idle"]
    /\ loads = 0
    /\ accepted = {}
    /\ unloads = 0
    /\ snapshot = <<>>
    /\ downloads_lock = None
    /\ threads = <<>>

RaceSpec == RaceInit /\ [][Next]_vars

-----------------------------------------------------------------------------
(* One key and one caller, with every thread scheduled fairly and every     *)
(* adapter call returning or raising: a step a thread can take is taken     *)

\* a caller inside add_download_job goes on to its write and returns
SubmitReturns == \E c \in DOMAIN call : SubmitReject(c) \/ SubmitAccept(c)

\* the download_video call of a running fetch body returns or raises
DownloadEnds ==
    \E unit \in download_executor.workers :
        \/ DownloadSuccess(unit)
        \/ \E e \in DownloadErrors : DownloadFail(unit, e)

\* the convert_video call of a running transcode body returns or raises
ConvertEnds ==
    \E unit \in conversion_executor.workers :
        \E conversion_result \in ConvertResults(unit) :
            ConvertFinish(unit, conversion_result)

\* a running transcribe body ends
TranscribeEnds == \E unit \in transcription_executor.workers : TranscribeFinish(unit)

LiveInit ==
    /\ urls = {UrlPrefix \o "a.mkv"}
    /\ downloads = [u \in {} |-> TaskProgress(QUEUED, "Queued.")]
    /\ enable_transcription = FALSE
    /\ download_executor = NewExecutor
    /\ conversion_executor = NewExecutor
    /\ transcription_executor = NewExecutor
    /\ call = [c \in {"loop"} |-> Idle]
    /\ jobs = 0
    /\ ret = None
    /\ clears = <<>>
    /\ last_call = NoCall
    /\ shutdown_pc = "idle"
    /\ whisper_model = None
    /\ transcribers = [t \in {} |-> "idle"]
    /\ loads = 0
    /\ accepted = {}
    /\ unloads = 0
    /\ snapshot = <<>>
    /\ downloads_lock = None
    /\ threads = <<>>

LiveSpec ==
    /\ LiveInit
    /\ [][Next]_vars
    /\ WF_vars(SubmitReturns)
    /\ WF_vars(DownloadStart)
    /\ WF_vars(DownloadEnds)
    /\ WF_vars(ConvertStart)
    /\ WF_vars(ConvertEnds)
    /\ WF_vars(TranscribeStart)
    /\ WF_vars(TranscribeEnds)

-----------------------------------------------------------------------------
(* backend/whisper_transcriber.py, called from the threads of the           *)
(* transcription pool.  The module takes no lock: _load_whisper_model reads *)
(* _whisper_model, and whisper.load_model runs before the assignment.       *)

\* the threads of transcription_executor
TranscribeThreads == 1..max_transcription_workers

\* the rest of the state, which the module does not touch
PipelineUnchanged ==
    UNCHANGED <<urls, snapshot, downloads_lock, threads, downloads,
                enable_transcription, download_executor,
                conversion_executor, transcription_executor, call, jobs, ret, clears,
                last_call, shutdown_pc, accepted>>

\* a thread outside transcribe_video_with_whisper; result is what its last call
\* returned under "status"
Returned(result) == [pc |-> "idle", result |-> result]

\* transcribe_video_with_whisper is entered: progress_callback(0), and
\* progress_callback(5) if _whisper_model is None
transcribe_video_with_whisper(t) ==
    /\ transcribers[t].pc = "idle"
    /\ transcribers' =
           [transcribers EXCEPT ![t] =
               [pc |-> "_load_whisper_model",
                progress |-> IF whisper_model = None THEN 5 ELSE 0]]
    /\ unloads' = 0
    /\ UNCHANGED <<whisper_model, loads>>
    /\ PipelineUnchanged

\* _load_whisper_model: if _whisper_model is None, whisper.load_model is called;
\* else the cached model is returned
_load_whisper_model(t) ==
    /\ transcribers[t].pc = "_load_whisper_model"
    /\ IF whisper_model = None
       THEN /\ loads < MaxLoads
            /\ loads' = loads + 1
            /\ transcribers' = [transcribers EXCEPT ![t].pc = "load_model"]
       ELSE /\ loads' = loads
            /\ transcribers' = [transcribers EXCEPT ![t].pc = "loaded"]
    /\ unloads' = 0
    /\ UNCHANGED whisper_model
    /\ PipelineUnchanged

\* whisper.load_model returns and _whisper_model is assigned
LoadModelReturns(t) ==
    /\ transcribers[t].pc = "load_model"
    /\ whisper_model' = "model"
    /\ transcribers' = [transcribers EXCEPT ![t].pc = "loaded"]
    /\ unloads' = 0
    /\ UNCHANGED loads
    /\ PipelineUnchanged

\* faulty variant: the failed load is left in _whisper_model
LoadModelRaisesCachesFailure(t) ==
    /\ transcribers[t].pc = "load_model"
    /\ transcribers' = [transcribers EXCEPT ![t] = Returned("failed")]
    /\ whisper_model' = "failed"
    /\ unloads' = 0
    /\ UNCHANGED loads
    /\ PipelineUnchanged

\* whisper.load_model raises: RuntimeError, progress_callback(-1), status failed
LoadModelRaises(t) ==
    /\ transcribers[t].pc = "load_model"
    /\ transcribers' = [transcribers EXCEPT ![t] = Returned("failed")]
    /\ unloads' = 0
    /\ UNCHANGED <<whisper_model, loads>>
    /\ PipelineUnchanged

\* progress_callback(15); FileNotFoundError unless the video exists;
\* progress_callback(20) and model.transcribe is called
ModelTranscribe(t, exists) ==
    /\ transcribers[t].pc = "loaded"
    /\ transcribers' =
           [transcribers EXCEPT ![t] =
               IF exists THEN [pc |-> "transcribe", progress |-> 20]
               ELSE Returned("failed")]
    /\ unloads' = 0
    /\ UNCHANGED <<whisper_model, loads>>
    /\ PipelineUnchanged

\* model.transcribe returns (the SRT file is written, status success) or raises
ModelTranscribeEnds(t, result) ==
    /\ transcribers[t].pc = "transcribe"
    /\ transcribers' = [transcribers EXCEPT ![t] = Returned(result)]
    /\ unloads' = 0
    /\ UNCHANGED <<whisper_model, loads>>
    /\ PipelineUnchanged

\* faulty variant: the name is deleted and not bound to None again
UnloadLeavesPlaceholder(model) == IF model # None THEN "deleted" ELSE model

\* the value of _whisper_model after unload_whisper_model: if it is not None
\* it is deleted and set to None; else nothing is done
Unloaded(model) == IF model # None THEN None ELSE model

\* unload_whisper_model()
unload_whisper_model ==
    /\ whisper_model' = Unloaded(whisper_model)
    /\ loads' = 0
    /\ unloads' = IF unloads < 2 THEN unloads + 1 ELSE unloads
    /\ UNCHANGED transcribers
    /\ PipelineUnchanged

WhisperNext ==
    \/ \E t \in TranscribeThreads : transcribe_video_with_whisper(t)
    \/ \E t \in TranscribeThreads : _load_whisper_model(t)
    \/ \E t \in TranscribeThreads : LoadModelReturns(t)
    \/ \E t \in TranscribeThreads : LoadModelRaises(t)
    \/ \E t \in TranscribeThreads, exists \in BOOLEAN : ModelTranscribe(t, exists)
    \/ \E t \in TranscribeThreads, result \in {"success", "failed"} :
           ModelTranscribeEnds(t, result)
    \/ unload_whisper_model

WhisperInit ==
    /\ urls = {}
    /\ downloads = [u \in {} |-> TaskProgress(QUEUED, "Queued.")]
    /\ enable_transcription = FALSE
    /\ download_executor = NewExecutor
    /\ conversion_executor = NewExecutor
    /\ transcription_executor = NewExecutor
    /\ call = [c \in {"loop"} |-> Idle]
    /\ jobs = 0
    /\ ret = None
    /\ clears = <<>>
    /\ last_call = NoCall
    /\ shutdown_pc = "idle"
    /\ whisper_model = None
    /\ transcribers = [t \in TranscribeThreads |-> Returned(None)]
    /\ loads = 0
    /\ accepted = {}
    /\ unloads = 0
    /\ snapshot = <<>>
    /\ downloads_lock = None
    /\ threads = <<>>

WhisperSpec == WhisperInit /\ [][WhisperNext]_vars

-----------------------------------------------------------------------------
(* The ledger alone: update_progress under every call a caller can make *)

\* the values a caller passes for the fields the consistency rules read
StatusArgs == TaskStatus
\* progress_percentage as the callbacks report it: download_video reports
\* bytes_downloaded / total_size * 100 unclamped, transcribe_video_with_whisper
\* reports -1 on its failure paths, convert_video clamps to 0..100
ProgressArgs == {-1, 0, 50, 100, 150}
SpeedArgs == {"1.00 MB/s"}
ErrorArgs == {None, "", "boom"}
OutputPathArgs == {"/videos/a.mkv"}

\* every kwargs over a subset of status, progress_percentage, download_speed
\* (with eta), error_message and output_path
LedgerKwargs ==
    {[f \in fields |-> full[f]] :
        full \in [status : StatusArgs, progress_percentage : ProgressArgs,
                  download_speed : SpeedArgs, eta : {"0m 5s"},
                  error_message : ErrorArgs, output_path : OutputPathArgs],
        fields \in {fs \in SUBSET {"status", "progress_percentage",
                                   "download_speed", "eta", "error_message",
                                   "output_path"} :
                       ("download_speed" \in fs) = ("eta" \in fs)}}

\* update_download_progress(url, **kwargs): queue_manager.update_progress(url, **kwargs)
update_download_progress(url, kwargs) ==
    /\ downloads' = update_progress(downloads, url, kwargs)
    /\ last_call' = [url |-> url, kwargs |-> kwargs]
    /\ UNCHANGED <<urls, unloads, snapshot, downloads_lock, threads, shutdown_pc,
                   whisper_model, transcribers, loads, accepted,
                   enable_transcription, download_executor, conversion_executor,
                   transcription_executor, call, jobs, ret, clears>>

LedgerNext ==
    \E url \in urls, kwargs \in LedgerKwargs : update_download_progress(url, kwargs)

LedgerInit ==
    /\ urls = {UrlPrefix \o "a.mkv"}
    /\ downloads = [u \in {} |-> TaskProgress(QUEUED, "Queued.")]
    /\ enable_transcription = FALSE
    /\ download_executor = NewExecutor
    /\ conversion_executor = NewExecutor
    /\ transcription_executor = NewExecutor
    /\ call = [c \in {"loop"} |-> Idle]
    /\ jobs = 0
    /\ ret = None
    /\ clears = <<>>
    /\ last_call = NoCall
    /\ shutdown_pc = "idle"
    /\ whisper_model = None
    /\ transcribers = [t \in {} |-> "idle"]
    /\ loads = 0
    /\ accepted = {}
    /\ unloads = 0
    /\ snapshot = <<>>
    /\ downloads_lock = None
    /\ threads = <<>>

LedgerSpec == LedgerInit /\ [][LedgerNext]_vars

-----------------------------------------------------------------------------
(* The readers of the ledger: get_progress, get_all_progress, is_url_active *)

\* faulty variant: the record itself is returned, not a copy of it
the_record(url, progress) == [ref |-> url, fields |-> progress]

\* asdict(progress): a new dict holding the values of the record's fields
asdict(url, progress) == [ref |-> None, fields |-> progress]

\* what the holder of a returned value reads in it while the ledger is d
Deref(value, d) == IF value.ref \in DOMAIN d THEN d[value.ref] ELSE value.fields

\* get_progress(url): asdict(progress) if the key has a record, else None
get_progress(url) ==
    /\ snapshot' = [u \in {url} \cap DOMAIN downloads |-> asdict(u, downloads[u])]
    /\ UNCHANGED <<urls, downloads, unloads, downloads_lock, threads, shutdown_pc,
                   whisper_model, transcribers, loads, accepted, last_call,
                   enable_transcription, download_executor, conversion_executor,
                   transcription_executor, call, jobs, ret, clears>>

\* get_all_progress(): {url: asdict(progress) for url, progress in downloads.items()}
get_all_progress ==
    /\ snapshot' = [u \in DOMAIN downloads |-> asdict(u, downloads[u])]
    /\ UNCHANGED <<urls, downloads, unloads, downloads_lock, threads, shutdown_pc,
                   whisper_model, transcribers, loads, accepted, last_call,
                   enable_transcription, download_executor, conversion_executor,
                   transcription_executor, call, jobs, ret, clears>>

\* a call of is_url_active(url) and its return value
IsUrlActive(url) ==
    /\ ret' = IF is_url_active(downloads, url) THEN "True" ELSE "False"
    /\ UNCHANGED <<urls, downloads, unloads, downloads_lock, threads, shutdown_pc,
                   whisper_model, transcribers, loads, accepted, last_call,
                   enable_transcription, download_executor, conversion_executor,
                   transcription_executor, call, jobs, snapshot, clears>>

\* the upserts made between the reads: a status alone or a progress alone
ReaderKwargs ==
    {[status |-> status] : status \in {DOWNLOADING, FINALIZED, FAILED}}
        \cup {[progress_percentage |-> 50]}

ReaderNext ==
    \/ \E url \in urls, kwargs \in ReaderKwargs : update_download_progress(url, kwargs)
    \/ \E url \in urls : get_progress(url)
    \/ get_all_progress
    \/ \E url \in urls : IsUrlActive(url)

ReaderInit ==
    /\ urls = Keys
    /\ downloads = [u \in {} |-> TaskProgress(QUEUED, "Queued.")]
    /\ enable_transcription = FALSE
    /\ download_executor = NewExecutor
    /\ conversion_executor = NewExecutor
    /\ transcription_executor = NewExecutor
    /\ call = [c \in {"loop"} |-> Idle]
    /\ jobs = 0
    /\ ret = None
    /\ clears = <<>>
    /\ last_call = NoCall
    /\ shutdown_pc = "idle"
    /\ whisper_model = None
    /\ transcribers = [t \in {} |-> "idle"]
    /\ loads = 0
    /\ accepted = {}
    /\ unloads = 0
    /\ snapshot = <<>>
    /\ downloads_lock = None
    /\ threads = <<>>

ReaderSpec == ReaderInit /\ [][ReaderNext]_vars

-----------------------------------------------------------------------------
(* downloads_lock: the with blocks of the ledger methods and where the stage
   bodies stand when they call their adapter *)

\* one thread of each pool runs a stage body; "api" is a request thread that
\* calls get_progress, get_all_progress, is_url_active or clear_finished_progress
StageThreads == {"_download_task", "_convert_task", "_transcribe_task"}
ApiThreads == {"api"}

\* where a thread stands (at) and what it does about the lock there (pc)
At(at, pc) == [at |-> at, pc |-> pc]

\* faulty variant: the lock is still held after the with block
StillHeld(holder) == holder

\* the end of `with self.downloads_lock:`
Released(holder) == None

LockUnchanged ==
    UNCHANGED <<urls, downloads, enable_transcription, download_executor,
                conversion_executor, transcription_executor, call, jobs, ret,
                clears, last_call, shutdown_pc, whisper_model, transcribers,
                loads, accepted, unloads, snapshot>>

\* the pool starts the body: its first statement is update_progress(status=...)
TaskStart(t) ==
    /\ t \in StageThreads
    /\ threads[t] = At("idle", "run")
    /\ threads' = [threads EXCEPT ![t] = At("start", "acquire")]
    /\ UNCHANGED downloads_lock
    /\ LockUnchanged

\* `with self.downloads_lock:` is entered once no thread holds the lock
Acquire(t) ==
    /\ threads[t].pc = "acquire"
    /\ downloads_lock = None
    /\ downloads_lock' = t
    /\ threads' = [threads EXCEPT ![t].pc = "locked"]
    /\ LockUnchanged

\* the with block ends and the ledger method returns
Release(t) ==
    /\ threads[t].pc = "locked"
    /\ downloads_lock' = Released(downloads_lock)
    /\ threads' = [threads EXCEPT ![t].pc = "run"]
    /\ LockUnchanged

\* update_progress has returned; the body calls download_video, convert_video or
\* transcribe_video_with_whisper
AdapterCall(t) ==
    /\ threads[t] = At("start", "run")
    /\ threads' = [threads EXCEPT ![t] = At("adapter", "run")]
    /\ UNCHANGED downloads_lock
    /\ LockUnchanged

\* the adapter calls progress_callback, which calls update_progress
AdapterCallback(t) ==
    /\ threads[t] = At("adapter", "run")
    /\ threads' = [threads EXCEPT ![t] = At("callback", "acquire")]
    /\ UNCHANGED downloads_lock
    /\ LockUnchanged

\* progress_callback returns into the adapter
CallbackReturn(t) ==
    /\ threads[t] = At("callback", "run")
    /\ threads' = [threads EXCEPT ![t] = At("adapter", "run")]
    /\ UNCHANGED downloads_lock
    /\ LockUnchanged

\* the adapter returns or raises; the body calls update_progress with the outcome
AdapterReturn(t) ==
    /\ threads[t] = At("adapter", "run")
    /\ threads' = [threads EXCEPT ![t] = At("result", "acquire")]
    /\ UNCHANGED downloads_lock
    /\ LockUnchanged

\* the body ends
TaskEnd(t) ==
    /\ threads[t] = At("result", "run")
    /\ threads' = [threads EXCEPT ![t] = At("idle", "run")]
    /\ UNCHANGED downloads_lock
    /\ LockUnchanged

\* a request thread calls a reader of the ledger or clear_finished_progress
ApiCall(t) ==
    /\ t \in ApiThreads
    /\ threads[t] = At("idle", "run")
    /\ threads' = [threads EXCEPT ![t] = At("ledger", "acquire")]
    /\ UNCHANGED downloads_lock
    /\ LockUnchanged

\* and gets its return value
ApiReturn(t) ==
    /\ threads[t] = At("ledger", "run")
    /\ threads' = [threads EXCEPT ![t] = At("idle", "run")]
    /\ UNCHANGED downloads_lock
    /\ LockUnchanged

LockNext ==
    \E t \in StageThreads \cup ApiThreads :
        \/ TaskStart(t)
        \/ Acquire(t)
        \/ Release(t)
        \/ AdapterCall(t)
        \/ AdapterCallback(t)
        \/ CallbackReturn(t)
        \/ AdapterReturn(t)
        \/ TaskEnd(t)
        \/ ApiCall(t)
        \/ ApiReturn(t)

LockInit ==
    /\ urls = {}
    /\ downloads = [u \in {} |-> TaskProgress(QUEUED, "Queued.")]
    /\ enable_transcription = FALSE
    /\ download_executor = NewExecutor
    /\ conversion_executor = NewExecutor
    /\ transcription_executor = NewExecutor
    /\ call = [c \in {"loop"} |-> Idle]
    /\ jobs = 0
    /\ ret = None
    /\ clears = <<>>
    /\ last_call = NoCall
    /\ shutdown_pc = "idle"
    /\ whisper_model = None
    /\ transcribers = [t \in {} |-> "idle"]
    /\ loads = 0
    /\ accepted = {}
    /\ unloads = 0
    /\ snapshot = <<>>
    /\ downloads_lock = None
    /\ threads = [t \in StageThreads \cup ApiThreads |-> At("idle", "run")]

LockSpec == LockInit /\ [][LockNext]_vars

-----------------------------------------------------------------------------
(* POST /transcribe: transcribe_video_endpoint(req), an async function that
   runs on the event loop like POST /download (one caller); the worker threads
   run between its is_url_active and its update_progress *)

\* str(full_video_filepath) for the req.path values of the model, and req.title
TranscribePaths == {join(SavePath, "a.mp4")}
TranscribeTitles == {"a"}

\* full_video_filepath.is_file() is False: HTTPException 404
TranscribeNotFound(c, task_key) ==
    /\ call[c].pc = "idle"
    /\ ret' = "404"
    /\ UNCHANGED <<urls, unloads, snapshot, downloads_lock, threads, shutdown_pc,
                   whisper_model, transcribers, loads, accepted,
                   downloads, enable_transcription, download_executor,
                   conversion_executor, transcription_executor, call, jobs, clears,
                   last_call>>

\* is_url_active(task_key) returned True: HTTPException 409
TranscribeConflict(c, task_key) ==
    /\ call[c].pc = "idle"
    /\ is_url_active(downloads, task_key)
    /\ ret' = "409"
    /\ UNCHANGED <<urls, unloads, snapshot, downloads_lock, threads, shutdown_pc,
                   whisper_model, transcribers, loads, accepted,
                   downloads, enable_transcription, download_executor,
                   conversion_executor, transcription_executor, call, jobs, clears,
                   last_call>>

\* is_url_active(task_key) returned False
TranscribeCheckInactive(c, task_key) ==
    /\ call[c].pc = "idle"
    /\ ~is_url_active(downloads, task_key)
    /\ jobs < MaxJobs
    /\ jobs' = jobs + 1
    /\ call' = [call EXCEPT ![c] = [pc |-> "transcribe", url |-> task_key,
                                    job |-> jobs + 1]]
    /\ UNCHANGED <<urls, unloads, snapshot, downloads_lock, threads, shutdown_pc,
                   whisper_model, transcribers, loads, accepted,
                   downloads, enable_transcription, download_executor,
                   conversion_executor, transcription_executor, ret, clears, last_call>>

\* update_progress(task_key, status=QUEUED, ..., output_path=task_key,
\* filename=req.title); transcription_executor.submit(_transcribe_task, task_key,
\* task_key); return {"status": "queued", ...}
TranscribeQueue(c, title) ==
    /\ call[c].pc = "transcribe"
    /\ Upsert(call[c].url,
              [status |-> QUEUED, message |-> "Transcription queued.",
               progress_percentage |-> 0, output_path |-> call[c].url,
               filename |-> title])
    /\ IF transcription_executor.is_shutdown
       THEN /\ transcription_executor' = transcription_executor
            /\ ret' = "RuntimeError"
       ELSE /\ transcription_executor' =
                   submit(transcription_executor,
                          [job |-> call[c].job, url |-> call[c].url,
                           path |-> call[c].url])
            /\ ret' = "queued"
    /\ call' = [call EXCEPT ![c] = Idle]
    /\ UNCHANGED <<urls, unloads, snapshot, downloads_lock, threads, shutdown_pc,
                   whisper_model, transcribers, loads, accepted,
                   enable_transcription, download_executor, conversion_executor,
                   jobs, last_call>>

TranscribeNext ==
    \/ \E c \in DOMAIN call, url \in urls : SubmitCheckActive(c, url)
    \/ \E c \in DOMAIN call, url \in urls : SubmitCheckInactive(c, url)
    \/ \E c \in DOMAIN call : SubmitReject(c)
    \/ \E c \in DOMAIN call : SubmitAccept(c)
    \/ DownloadStart
    \/ \E unit \in download_executor.workers : DownloadSuccess(unit)
    \/ \E unit \in download_executor.workers, e \in DownloadErrors :
           DownloadFail(unit, e)
    \/ ConvertStart
    \/ \E unit \in conversion_executor.workers :
           \E conversion_result \in ConvertResults(unit) :
               ConvertFinish(unit, conversion_result)
    \/ TranscribeStart
    \/ \E unit \in transcription_executor.workers : TranscribeFinish(unit)
    \/ ClearFinished
    \/ \E enabled \in BOOLEAN : UpdateQueueConfig(enabled)
    \/ \E c \in DOMAIN call, task_key \in TranscribePaths :
           TranscribeNotFound(c, task_key)
    \/ \E c \in DOMAIN call, task_key \in TranscribePaths :
           TranscribeConflict(c, task_key)
    \/ \E c \in DOMAIN call, task_key \in TranscribePaths :
           TranscribeCheckInactive(c, task_key)
    \/ \E c \in DOMAIN call, title \in TranscribeTitles : TranscribeQueue(c, title)

TranscribeInit ==
    /\ urls = {UrlPrefix \o "a.mkv"}
    /\ downloads = [u \in {} |-> TaskProgress(QUEUED, "Queued.")]
    /\ enable_transcription = FALSE
    /\ download_executor = NewExecutor
    /\ conversion_executor = NewExecutor
    /\ transcription_executor = NewExecutor
    /\ call = [c \in {"loop"} |-> Idle]
    /\ jobs = 0
    /\ ret = None
    /\ clears = <<>>
    /\ last_call = NoCall
    /\ shutdown_pc = "idle"
    /\ whisper_model = None
    /\ transcribers = [t \in {} |-> "idle"]
    /\ loads = 0
    /\ accepted = {}
    /\ unloads = 0
    /\ snapshot = <<>>
    /\ downloads_lock = None
    /\ threads = <<>>

TranscribeSpec == TranscribeInit /\ [][TranscribeNext]_vars

-----------------------------------------------------------------------------
(* The vocabulary of the claims *)

\* the statuses the specification calls non-terminal (active) and terminal
NonTerminal == {"queued", "downloading", "download_completed", "converting",
                "transcribing"}
Terminal == {"finalized", "failed", "skipped"}

\* every unit of work of the pipeline, queued or running
AllUnits ==
    Units(download_executor) \cup Units(conversion_executor)
        \cup Units(transcription_executor)

UnitsOf(url) == {unit \in AllUnits : unit.url = url}

ExecutorsUnchanged ==
    UNCHANGED <<download_executor, conversion_executor, transcription_executor>>

\* the path the fetch stage produces for a key
FetchedPath(url) == SavePath \o "/" \o FileNameOf(url)

-----------------------------------------------------------------------------
\* C1: a submit whose is_url_active check finds the key's record in a
\* non-terminal status (as a second submit right after an accepted one does) is
\* rejected: it takes the reject branch, returns False and enqueues nothing.
C1_SecondSubmitReturnsFalse ==
    [][\A c \in DOMAIN call :
          /\ ( /\ call[c].pc = "idle"
               /\ call'[c].pc # "idle"
               /\ call'[c].url \in DOMAIN downloads
               /\ downloads[call'[c].url].status \in NonTerminal )
             => call'[c].pc = "reject"
          /\ (call[c].pc = "reject" /\ call'[c].pc = "idle")
             => (ret' = "False" /\ ExecutorsUnchanged)]_vars

\* the second submit has returned False while the first job is still queued
C1_Witness ==
    \E url \in DOMAIN downloads :
        /\ ret = "False"
        /\ downloads[url].status = QUEUED
        /\ downloads[url].message = "Already in progress."
        /\ \E i \in 1..Len(download_executor.queue) :
               download_executor.queue[i].url = url

\* C2: at most one pipeline run per key: at any time at most one unit of work
\* (fetch, transcode or transcribe, queued or running) exists for a key, also
\* when two add_download_job calls for the key interleave.
C2_AtMostOneRunPerKey ==
    \A url \in Keys : Cardinality(UnitsOf(url)) <= 1

\* C3 as claimed: a rejected submit returns False, enqueues nothing and leaves
\* status, progressPercentage, downloadSpeed, eta, outputPath, message and
\* filename of the existing record as they were.
C3_RejectLeavesRecordUntouched ==
    [][\A c \in DOMAIN call :
          (SubmitReject(c) /\ call[c].url \in DOMAIN downloads)
          => /\ ret' = "False"
             /\ ExecutorsUnchanged
             /\ downloads' = downloads]_vars

\* C3 amended: a rejected submit returns False, enqueues nothing and changes
\* only the message of the record it finds (to "Already in progress."): status,
\* progress_percentage, download_speed, eta, output_path, filename and
\* error_message of that record, and every other record, stay as they were.
C3_RejectChangesOnlyMessage ==
    [][\A c \in DOMAIN call :
          (SubmitReject(c) /\ call[c].url \in DOMAIN downloads)
          => /\ ret' = "False"
             /\ ExecutorsUnchanged
             /\ downloads' = [downloads EXCEPT ![call[c].url].message =
                                                   "Already in progress."]]_vars

\* a job in mid-download was submitted again: the rejection is in its message
\* and its progress, speed and eta are those of the last tick
C3_Witness ==
    \E url \in DOMAIN downloads :
        /\ ret = "False"
        /\ downloads[url].status = DOWNLOADING
        /\ downloads[url].message = "Already in progress."
        /\ downloads[url].progress_percentage = 50
        /\ downloads[url].download_speed = "1.00 MB/s"
        /\ UnitsOf(url) = download_executor.workers

\* C4: every record that is FINALIZED, SKIPPED or DOWNLOAD_COMPLETED has
\* progress 100 and every FAILED record has progress 0, whatever upserts made it.
C4_TerminalProgress ==
    \A url \in DOMAIN downloads :
        /\ downloads[url].status \in {"finalized", "skipped", "download_completed"}
           => downloads[url].progress_percentage = 100
        /\ downloads[url].status = "failed"
           => downloads[url].progress_percentage = 0

\* a progress callback that set only progress_percentage = 50 reached a record
\* that is FINALIZED
C4_Witness ==
    /\ last_call.url \in DOMAIN downloads
    /\ DOMAIN last_call.kwargs = {"progress_percentage"}
    /\ last_call.kwargs.progress_percentage = 50
    /\ downloads[last_call.url].status = FINALIZED
    /\ downloads[last_call.url].progress_percentage = 100

\* C5: every record whose status is not DOWNLOADING has download_speed and eta
\* None, also after a fetch progress callback that came late.
C5_SpeedEtaOnlyWhileDownloading ==
    \A url \in DOMAIN downloads :
        downloads[url].status # "downloading"
        => (downloads[url].download_speed = None /\ downloads[url].eta = None)

\* a fetch progress callback (percentage, speed, eta, no status) reached a record
\* that is CONVERTING
C5_Witness ==
    /\ last_call.url \in DOMAIN downloads
    /\ DOMAIN last_call.kwargs = {"progress_percentage", "download_speed", "eta"}
    /\ last_call.kwargs.download_speed = "1.00 MB/s"
    /\ downloads[last_call.url].status = CONVERTING
    /\ downloads[last_call.url].progress_percentage = 50

\* C6: every record that is not FAILED has error_message None and every FAILED
\* record has a non-empty error_message, for every error_message a caller passes.
C6_ErrorMessageIffFailed ==
    \A url \in DOMAIN downloads :
        /\ downloads[url].status # "failed" => downloads[url].error_message = None
        /\ downloads[url].status = "failed"
           => downloads[url].error_message \notin {None, ""}

\* C7: clear_finished_progress removes exactly the FINALIZED, FAILED and SKIPPED
\* records, returns their number, and leaves the other records, the queued and
\* running units and the callers as they were.
C7_ClearRemovesExactlyTerminal ==
    [][ClearFinished
       => LET gone == {url \in DOMAIN downloads :
                          downloads[url].status \in Terminal}
          IN  /\ DOMAIN downloads' = DOMAIN downloads \ gone
              /\ \A url \in DOMAIN downloads' : downloads'[url] = downloads[url]
              /\ clears'[Len(clears')] = Cardinality(gone)
              /\ ExecutorsUnchanged
              /\ UNCHANGED <<call, enable_transcription>>]_vars

\* a call has just removed a finished record while another job is downloading
C7_Witness ==
    /\ clears # <<>>
    /\ clears[Len(clears)] >= 1
    /\ \E url \in DOMAIN downloads :
           /\ downloads[url].status = DOWNLOADING
           /\ \E unit \in download_executor.workers : unit.url = url

\* C8: a clear_finished_progress call that follows another with no ledger write
\* between them returns 0 and leaves the ledger as it was.
C8_ClearTwiceReturnsZero ==
    [][(ClearFinished /\ clears # <<>>)
       => (clears'[Len(clears')] = 0 /\ downloads' = downloads)]_vars

\* two calls in a row: the first removed records, the second returned 0
C8_Witness ==
    /\ Len(clears) = 2
    /\ clears[1] >= 1
    /\ clears[2] = 0

\* C9 (scenario A): when the transcode adapter reports skipped and
\* enable_transcription is False, the transcode body leaves the record SKIPPED
\* with output_path the fetched path and progress 100, queues no transcription
\* and ends the job (no unit of it is left).
C9_SkippedWithoutTranscription ==
    [][\A unit \in conversion_executor.workers :
          \A conversion_result \in ConvertResults(unit) :
              ( /\ ConvertFinish(unit, conversion_result)
                /\ conversion_result.status = "skipped"
                /\ ~enable_transcription )
              => /\ downloads'[unit.url].status = "skipped"
                 /\ downloads'[unit.url].output_path = FetchedPath(unit.url)
                 /\ downloads'[unit.url].progress_percentage = 100
                 /\ transcription_executor' = transcription_executor
                 /\ \A other \in AllUnits' : other.job # unit.job]_vars

\* a job has ended SKIPPED on its fetched file with transcription disabled
C9_Witness ==
    \E url \in DOMAIN downloads :
        /\ ~enable_transcription
        /\ downloads[url].status = SKIPPED
        /\ downloads[url].output_path = FetchedPath(url)
        /\ downloads[url].progress_percentage = 100
        /\ UnitsOf(url) = {}

\* C10 (scenario B): when the transcode adapter throws, the transcode body leaves
\* the record FAILED with progress 0 and a non-empty error_message and queues no
\* transcription, whatever enable_transcription is; no unit of the job is left.
C10_TranscodeThrows ==
    [][\A unit \in conversion_executor.workers :
          \A conversion_result \in ConvertResults(unit) :
              ( /\ ConvertFinish(unit, conversion_result)
                /\ conversion_result.status = "raise" )
              => /\ downloads'[unit.url].status = "failed"
                 /\ downloads'[unit.url].progress_percentage = 0
                 /\ downloads'[unit.url].error_message \notin {None, ""}
                 /\ transcription_executor' = transcription_executor
                 /\ \A other \in AllUnits' : other.job # unit.job]_vars

\* with transcription enabled, a job has ended FAILED on the exception of the
\* transcode adapter
C10_Witness ==
    \E url \in DOMAIN downloads :
        /\ enable_transcription
        /\ downloads[url].status = FAILED
        /\ downloads[url].error_message =
               "Conversion system error for " \o FetchedPath(url)
                   \o ": [Errno 13] Permission denied"
        /\ downloads[url].progress_percentage = 0
        /\ UnitsOf(url) = {}

\* C11 (scenario C): a transcribe body, which runs only for a job whose fetch
\* and transcode succeeded with enable_transcription True, calls the transcribe
\* adapter and ends with the record FINALIZED at progress 100, not FAILED.
C11_TranscriptionFinalizes ==
    [][\A unit \in transcription_executor.workers :
          TranscribeFinish(unit)
          => /\ downloads'[unit.url].status = "finalized"
             /\ downloads'[unit.url].progress_percentage = 100]_vars

C13_StagesOfAKeyNeverOverlap ==
    \A url \in Keys :
        Cardinality({unit \in download_executor.workers
                               \cup conversion_executor.workers
                               \cup transcription_executor.workers :
                        unit.url = url}) <= 1

\* the status edges of the pipeline
PipelineEdges ==
    {<<"queued", "downloading">>, <<"downloading", "download_completed">>,
     <<"download_completed", "converting">>, <<"converting", "transcribing">>,
     <<"converting", "finalized">>, <<"transcribing", "finalized">>,
     <<"converting", "skipped">>, <<"downloading", "failed">>,
     <<"converting", "failed">>, <<"transcribing", "failed">>}

\* C14: the status of a record changes only along the edges of the pipeline; a
\* new submit of a key whose record is terminal takes the record to QUEUED.
C14_StatusFollowsEdges ==
    [][\A url \in DOMAIN downloads \cap DOMAIN downloads' :
          downloads'[url].status # downloads[url].status
          => \/ <<downloads[url].status, downloads'[url].status>> \in PipelineEdges
             \/ /\ downloads[url].status \in Terminal
                /\ downloads'[url].status = "queued"
                /\ \E c \in DOMAIN call : SubmitAccept(c)]_vars

\* the units of the transcription pool, queued or running
TranscriptionUnits == Units(transcription_executor)

\* C15: enable_transcription is read once per job, when its transcode body ends:
\* a transcription unit is queued only by a transcode body that ends while the
\* toggle is True, for its own job; a change of the toggle changes no record and
\* no pool; and a transcription unit leaves its pool only by its body running to
\* its end, whatever the toggle is then.
C15_ToggleReadOnceAtConvertEnd ==
    [][/\ \A unit \in TranscriptionUnits' \ TranscriptionUnits :
              /\ enable_transcription
              /\ \E done \in conversion_executor.workers :
                     /\ done.job = unit.job
                     /\ done \notin Units(conversion_executor)'
       /\ enable_transcription' # enable_transcription
          => (downloads' = downloads /\ ExecutorsUnchanged)
       /\ \A unit \in TranscriptionUnits \ TranscriptionUnits' :
              /\ unit \in transcription_executor.workers
              /\ TranscribeFinish(unit)]_vars

\* a job that was sent to transcription (the toggle was True then) has started
\* its transcribe body, and the toggle is False now
C15_Witness ==
    /\ ~enable_transcription
    /\ \E unit \in transcription_executor.workers :
           downloads[unit.url].message = "Starting transcription..."

\* the body of unit ends in this step on an exception
StageRaises(unit) ==
    \/ /\ unit \in download_executor.workers
       /\ \E e \in DownloadErrors : DownloadFail(unit, e)
    \/ /\ unit \in download_executor.workers
       /\ conversion_executor.is_shutdown
       /\ DownloadSuccess(unit)
    \/ /\ unit \in conversion_executor.workers
       /\ \E conversion_result \in ConvertResults(unit) :
              /\ ConvertFinish(unit, conversion_result)
              /\ \/ conversion_result.status = "raise"
                 \/ /\ conversion_result.status \notin {"success", "skipped"}
                    /\ "error" \notin DOMAIN conversion_result
                 \/ /\ conversion_result.status \in {"success", "skipped"}
                    /\ enable_transcription
                    /\ transcription_executor.is_shutdown
    \/ /\ unit \in transcription_executor.workers
       /\ TranscribeFinish(unit)

\* C16: when an exception is raised inside a stage body (by the adapter, by the
\* handling of its result or by the submit of the next stage), the body upserts
\* FAILED with an error message for its key, its thread is released and no unit
\* of the job is left.
C16_ExceptionsBecomeFailed ==
    [][\A unit \in AllUnits :
          StageRaises(unit)
          => /\ downloads'[unit.url].status = "failed"
             /\ downloads'[unit.url].error_message \notin {None, ""}
             /\ downloads'[unit.url].progress_percentage = 0
             /\ \A other \in AllUnits' : other.job # unit.job]_vars

\* convert_video returned "converted", a result with no "error" entry: the
\* KeyError of the else branch was caught and the record is FAILED on it
C16_Witness ==
    \E url \in DOMAIN downloads :
        /\ downloads[url].status = FAILED
        /\ downloads[url].error_message =
               "Conversion system error for " \o FetchedPath(url) \o ": 'error'"
        /\ UnitsOf(url) = {}

\* C17: when shutdown has returned, no unit is queued or running in any of the
\* three pools, and the record of every key add_download_job had accepted is
\* in a terminal status (or was cleared).
C17_ShutdownDrains ==
    shutdown_pc = "returned"
    => /\ AllUnits = {}
       /\ \A url \in accepted \cap DOMAIN downloads :
              downloads[url].status \in Terminal

\* C18: an add_download_job call that is past its check when shutdown has been
\* called is not accepted: it does not return True, queues nothing and leaves
\* the record of its key in no active status.
C18_NoSubmitAfterShutdown ==
    [][\A c \in DOMAIN call :
          (SubmitAccept(c) /\ shutdown_pc # "idle")
          => /\ ret' # "True"
             /\ ExecutorsUnchanged
             /\ downloads'[call[c].url].status \notin NonTerminal]_vars

\* C19: with every adapter call returning or raising and every thread scheduled
\* fairly, a record that is in an active status later is FINALIZED, SKIPPED or
\* FAILED, under every interleaving of accepted and rejected submits, clears and
\* toggle changes (shutdown is never called).
C19_ActiveRecordsFinish ==
    [](shutdown_pc = "idle")
    => \A url \in Keys :
           (url \in DOMAIN downloads /\ downloads[url].status \in NonTerminal)
           ~> (url \in DOMAIN downloads /\ downloads[url].status \in Terminal)

\* C20: between two unload_whisper_model calls whisper.load_model is called at
\* most once, also when two threads of the transcription pool are the first
\* users at the same time.
C20_ModelLoadedOnce == loads <= 1

\* C21: unload_whisper_model leaves _whisper_model None and touches no thread;
\* called when the model is already unloaded it changes nothing, and a second
\* call right after a first leaves the state the first left.
C21_UnloadIdempotent ==
    [][unload_whisper_model
       => /\ whisper_model' = None
          /\ transcribers' = transcribers
          /\ whisper_model = None => whisper_model' = whisper_model
          /\ unloads >= 1 => whisper_model' = whisper_model]_vars

\* the model was loaded and used, then unload was called twice in a row
C21_Witness ==
    /\ unloads = 2
    /\ whisper_model = None
    /\ \E t \in TranscribeThreads : transcribers[t] = Returned("success")

\* C28: when whisper.load_model raises, the call that triggered the load returns
\* status failed (which the transcribe body turns into a FAILED upsert),
\* _whisper_model is left as it was (None unless another thread has loaded it),
\* and a later call that finds _whisper_model None calls whisper.load_model again.
C28_LoadFailureNotCached ==
    [][\A t \in TranscribeThreads :
          /\ LoadModelRaises(t)
             => /\ transcribers'[t] = [pc |-> "idle", result |-> "failed"]
                /\ TranscribeResult([status |-> transcribers'[t].result]).status
                       = "failed"
                /\ whisper_model' = whisper_model
          /\ (_load_whisper_model(t) /\ whisper_model = None)
             => transcribers'[t].pc = "load_model"]_vars

\* thread 1 alone has used the module: its first load failed, the model is
\* still None, and its next call is inside whisper.load_model again
C28_Witness ==
    /\ loads = 2
    /\ whisper_model = None
    /\ transcribers[1].pc = "load_model"
    /\ transcribers[2] = Returned(None)

\* C22: a submit of a key whose record is FINALIZED, FAILED or SKIPPED passes the
\* check with no clear_finished_progress needed; unless shutdown was called it
\* returns True, leaves the record QUEUED with progress 0, error_message None
\* and output_path None, and queues one fetch unit, which has not started; and
\* a fetch unit is queued by an accepted submit only (nothing retries a job).
C22_FailedJobCanBeResubmitted ==
    [][/\ \A c \in DOMAIN call :
             /\ ( /\ call[c].pc = "idle"
                  /\ call'[c].pc # "idle"
                  /\ call'[c].url \in DOMAIN downloads
                  /\ downloads[call'[c].url].status \in Terminal )
                => call'[c].pc = "accept"
             /\ ( /\ SubmitAccept(c)
                  /\ call[c].url \in DOMAIN downloads
                  /\ downloads[call[c].url].status \in Terminal
                  /\ ~download_executor.is_shutdown )
                => /\ ret' = "True"
                   /\ downloads'[call[c].url].status = "queued"
                   /\ downloads'[call[c].url].progress_percentage = 0
                   /\ downloads'[call[c].url].error_message = None
                   /\ downloads'[call[c].url].output_path = None
                   /\ Len(download_executor'.queue) = Len(download_executor.queue) + 1
                   /\ download_executor'.queue[Len(download_executor'.queue)].url
                          = call[c].url
                   /\ download_executor'.workers = download_executor.workers
       /\ \A unit \in Units(download_executor)' \ Units(download_executor) :
              \E c \in DOMAIN call : SubmitAccept(c) /\ call[c].url = unit.url]_vars

\* the first job of one key is still in its transcode stage, so the second and
\* third admissions were both of the other key: its job ended, it was submitted
\* again, and its record is QUEUED anew with the third job's fetch unit waiting
C22_Witness ==
    /\ ret = "True"
    /\ \E first \in Units(conversion_executor) : first.job = 1
    /\ \E i \in 1..Len(download_executor.queue) :
           /\ download_executor.queue[i].job = 3
           /\ downloads[download_executor.queue[i].url].status = QUEUED
           /\ downloads[download_executor.queue[i].url].message = "Download queued."
           /\ downloads[download_executor.queue[i].url].error_message = None
           /\ downloads[download_executor.queue[i].url].output_path = None

\* C24: every QUEUED record has progress 0 and output_path None, also after an
\* update_progress that passed an output_path together with status QUEUED.
C24_QueuedRecordIsReset ==
    \A url \in DOMAIN downloads :
        downloads[url].status = "queued"
        => /\ downloads[url].progress_percentage = 0
           /\ downloads[url].output_path = None

\* the call of transcribe_video_endpoint: status QUEUED with an output_path (and
\* here a progress of 50) reached the ledger, and the record has neither
C24_Witness ==
    /\ last_call.url \in DOMAIN downloads
    /\ {"status", "output_path", "progress_percentage"} \subseteq DOMAIN last_call.kwargs
    /\ last_call.kwargs.status = QUEUED
    /\ last_call.kwargs.output_path = "/videos/a.mkv"
    /\ last_call.kwargs.progress_percentage = 50
    /\ downloads[last_call.url].status = QUEUED
    /\ downloads[last_call.url].output_path = None
    /\ downloads[last_call.url].progress_percentage = 0

\* C25: progress_percentage of every record lies in 0..100, for every value a
\* progress callback of a stage passes to update_progress.
C25_ProgressInRange ==
    \A url \in DOMAIN downloads :
        /\ downloads[url].progress_percentage >= 0
        /\ downloads[url].progress_percentage <= 100

\* C23: get_progress, get_all_progress and is_url_active, for a key with or
\* without a record, leave the ledger as it was, and an update_progress leaves
\* what is read in the value returned earlier as it was.
C23_ReadersReadOnly ==
    [][/\ ( \/ \E url \in urls : get_progress(url) \/ IsUrlActive(url)
            \/ get_all_progress )
          => downloads' = downloads
       /\ (\E url \in urls, kwargs \in ReaderKwargs :
               update_download_progress(url, kwargs))
          => \A u \in DOMAIN snapshot :
                 /\ u \in DOMAIN snapshot'
                 /\ Deref(snapshot'[u], downloads') = Deref(snapshot[u], downloads)]_vars

\* a value was returned for a key, an update_progress then changed that key's
\* status, while the other key has no record and is_url_active returned False
C23_Witness ==
    /\ \E u \in DOMAIN snapshot :
           /\ last_call.url = u
           /\ Deref(snapshot[u], downloads).status = DOWNLOADING
           /\ downloads[u].status = FINALIZED
    /\ DOMAIN downloads # urls
    /\ ret = "False"

\* C26: a record becomes SKIPPED only from CONVERTING, in the step in which the
\* transcode body of its key ends on a skipped result while enable_transcription
\* is False; and a transcode body that ends on a skipped result while
\* enable_transcription is True leaves the record TRANSCRIBING with output_path
\* the fetched path and queues a transcription unit for that file.
C26_SkippedOnlyFromConverting ==
    [][/\ \A url \in DOMAIN downloads' :
              ( /\ downloads'[url].status = "skipped"
                /\ url \in DOMAIN downloads => downloads[url].status # "skipped" )
              => /\ url \in DOMAIN downloads
                 /\ downloads[url].status = "converting"
                 /\ ~enable_transcription
                 /\ \E unit \in conversion_executor.workers :
                        /\ unit.url = url
                        /\ \E conversion_result \in ConvertResults(unit) :
                               /\ conversion_result.status = "skipped"
                               /\ ConvertFinish(unit, conversion_result)
       /\ \A unit \in conversion_executor.workers :
              \A conversion_result \in ConvertResults(unit) :
                  ( /\ ConvertFinish(unit, conversion_result)
                    /\ conversion_result.status = "skipped"
                    /\ enable_transcription )
                  => /\ downloads'[unit.url].status = "transcribing"
                     /\ downloads'[unit.url].output_path = FetchedPath(unit.url)
                     /\ [job |-> unit.job, url |-> unit.url,
                         path |-> FetchedPath(unit.url)]
                            \in TranscriptionUnits' \ TranscriptionUnits]_vars

\* C27: a record that is FINALIZED, FAILED or SKIPPED keeps its status and every
\* other field, stays in the ledger, and gets no new unit of work, in every step
\* but an accepted submit of its key and clear_finished_progress.
C27_TerminalAbsorbing ==
    [][\A url \in DOMAIN downloads :
          downloads[url].status \in Terminal
          => \/ /\ url \in DOMAIN downloads'
                /\ downloads'[url] = downloads[url]
                /\ \A unit \in AllUnits' \ AllUnits : unit.url # url
             \/ ClearFinished
             \/ \E c \in DOMAIN call : SubmitAccept(c) /\ call[c].url = url]_vars

\* C30: a record leaves the ledger only in a clear_finished_progress step and
\* only if it is FINALIZED, FAILED or SKIPPED then; a record with an active
\* status is never removed.
C30_RemovedOnlyByClear ==
    [][\A url \in DOMAIN downloads \ DOMAIN downloads' :
          /\ ClearFinished
          /\ downloads[url].status \in Terminal
          /\ downloads[url].status \notin NonTerminal]_vars

\* the last clear removed the one finished record, of a key that was accepted and
\* has no unit left, while the other key's record, CONVERTING with its transcode
\* body running, stayed
C30_Witness ==
    /\ clears # <<>>
    /\ clears[Len(clears)] = 1
    /\ \E gone \in accepted \ DOMAIN downloads : UnitsOf(gone) = {}
    /\ \E url \in DOMAIN downloads :
           /\ downloads[url].status = CONVERTING
           /\ \E unit \in conversion_executor.workers : unit.url = url

\* C29: no thread holds downloads_lock while the adapter its stage body called
\* is running: the lock is held only inside a with block of a ledger method,
\* which a body enters and leaves before it calls the adapter, and a progress
\* callback enters and leaves before it returns into the adapter.
C29_LockNotHeldInAdapter ==
    /\ \A t \in DOMAIN threads :
           threads[t].at = "adapter" => downloads_lock # t
    /\ downloads_lock # None
       => /\ downloads_lock \in DOMAIN threads
          /\ threads[downloads_lock].pc = "locked"
          /\ threads[downloads_lock].at \in {"start", "callback", "result", "ledger"}

\* the fetch adapter is running while the transcode body holds the lock inside a
\* progress callback and a request thread waits for the lock
C29_Witness ==
    /\ threads # <<>>
    /\ threads["_download_task"] = At("adapter", "run")
    /\ downloads_lock = "_convert_task"
    /\ threads["_convert_task"] = At("callback", "locked")
    /\ threads["api"] = At("ledger", "acquire")

\* how far the job of an accepted submit has come: the pool its unit is in,
\* waiting (odd) or running (even); 0 when it has no unit
StageRank(job) ==
    IF \E unit \in download_executor.workers : unit.job = job THEN 2
    ELSE IF \E unit \in Units(download_executor) : unit.job = job THEN 1
    ELSE IF \E unit \in conversion_executor.workers : unit.job = job THEN 4
    ELSE IF \E unit \in Units(conversion_executor) : unit.job = job THEN 3
    ELSE IF \E unit \in transcription_executor.workers : unit.job = job THEN 6
    ELSE IF \E unit \in Units(transcription_executor) : unit.job = job THEN 5
    ELSE 0

\* the units whose body starts in this step, that is whose adapter is called
StartedUnits ==
    (download_executor.workers' \ download_executor.workers)
        \cup {unit \in conversion_executor.workers' :
                 \A running \in conversion_executor.workers : running.job # unit.job}
        \cup (transcription_executor.workers' \ transcription_executor.workers)

\* C31: nothing is retried: the job of an accepted submit gets its fetch unit
\* from that submit alone, has one unit at a time, and only moves forward through
\* the pools (so each stage body, and the adapter it calls, runs at most once
\* for it); and no stage body starts for a key whose record is FAILED.
C31_NoAutomaticRetry ==
    [][/\ \A job \in 1..MaxJobs + 1 :
              /\ Cardinality({unit \in AllUnits' : unit.job = job}) <= 1
              /\ StageRank(job) # 0 /\ StageRank(job)' # 0
                 => StageRank(job)' >= StageRank(job)
              /\ StageRank(job) = 0 /\ StageRank(job)' # 0
                 => /\ StageRank(job)' = 1
                    /\ \E c \in DOMAIN call : SubmitAccept(c) /\ call[c].job = job
       /\ \A unit \in StartedUnits :
              ~ ( /\ unit.url \in DOMAIN downloads
                  /\ downloads[unit.url].status = "failed" )]_vars

\* C32: an add_download_job that returns True changes the ledger by one write,
\* which leaves the key's record a fresh QUEUED record and every other record as
\* it was, and appends one fetch unit to the queue of download_executor, the
\* other pools unchanged; a call that is rejected or raises queues nothing, and
\* neither does the check that precedes the write.
C32_AcceptWritesOnceEnqueuesOnce ==
    [][\A c \in DOMAIN call :
          /\ ( SubmitAccept(c) /\ ret' = "True" )
             => /\ downloads'[call[c].url] = TaskProgress(QUEUED, "Download queued.")
                /\ DOMAIN downloads' = DOMAIN downloads \cup {call[c].url}
                /\ \A url \in DOMAIN downloads \ {call[c].url} :
                       downloads'[url] = downloads[url]
                /\ download_executor'.queue
                       = Append(download_executor.queue,
                                [job |-> call[c].job, url |-> call[c].url,
                                 path |-> SavePath])
                /\ download_executor'.workers = download_executor.workers
                /\ conversion_executor' = conversion_executor
                /\ transcription_executor' = transcription_executor
          /\ ( \/ SubmitReject(c)
               \/ SubmitAccept(c) /\ ret' # "True"
               \/ call[c].pc = "idle" /\ call'[c].pc # "idle" )
             => ExecutorsUnchanged]_vars

\* the second admission was accepted while the first job is mid-fetch: its key
\* has a fresh QUEUED record and the one new unit waits behind the running one,
\* whose record kept the progress the last tick reported
C32_Witness ==
    /\ ret = "True"
    /\ Len(download_executor.queue) = 1
    /\ download_executor.queue[1].job = 2
    /\ downloads[download_executor.queue[1].url]
           = TaskProgress(QUEUED, "Download queued.")
    /\ \E unit \in download_executor.workers :
           /\ unit.job = 1
           /\ downloads[unit.url].status = DOWNLOADING
           /\ downloads[unit.url].progress_percentage = 50
    /\ Units(conversion_executor) = {}

\* C33: when download_video returns, the fetch body leaves the record
\* DOWNLOAD_COMPLETED with output_path the fetched path and filename its
\* basename, and the one transcode unit it queues (for that path) is there only
\* from this step on; when download_video raises e, the record is left FAILED
\* with e's text in error_message and the job has no unit any more, no pool
\* having got one.
C33_FetchOutcome ==
    [][\A unit \in download_executor.workers :
          /\ DownloadSuccess(unit)
             => /\ downloads'[unit.url].status = "download_completed"
                /\ downloads'[unit.url].output_path = FetchedPath(unit.url)
                /\ downloads'[unit.url].filename = FileNameOf(unit.url)
                /\ StageRank(unit.job)' = 3
                /\ conversion_executor'.queue
                       = Append(conversion_executor.queue,
                                [job |-> unit.job, url |-> unit.url,
                                 path |-> FetchedPath(unit.url), ran |-> FALSE])
                /\ conversion_executor'.workers = conversion_executor.workers
                /\ transcription_executor' = transcription_executor
          /\ \A e \in DownloadErrors :
                 DownloadFail(unit, e)
                 => /\ downloads'[unit.url].status = "failed"
                    /\ downloads'[unit.url].error_message
                           = "Download failed for " \o unit.url \o ": " \o e
                    /\ StageRank(unit.job)' = 0
                    /\ conversion_executor' = conversion_executor
                    /\ transcription_executor' = transcription_executor]_vars

\* one job's fetch has succeeded, its transcode unit waiting or running on the
\* fetched file, and the other job's fetch has raised "timed out"
C33_Witness ==
    /\ \E unit \in Units(conversion_executor) :
           /\ unit.path = FetchedPath(unit.url)
           /\ downloads[unit.url].output_path = unit.path
           /\ downloads[unit.url].filename = FileNameOf(unit.url)
    /\ \E url \in DOMAIN downloads :
           /\ downloads[url].status = FAILED
           /\ downloads[url].error_message = "Download failed for " \o url \o ": timed out"
           /\ UnitsOf(url) = {}

\* C34: when convert_video returns status success, the transcode body sets
\* output_path to the transcoded file (not the fetched one); with
\* enable_transcription True it leaves the record TRANSCRIBING at progress 0 and
\* queues one transcription unit for that file, with it False it leaves the
\* record FINALIZED at progress 100 and queues nothing.
C34_TranscodeSuccess ==
    [][\A unit \in conversion_executor.workers :
          \A conversion_result \in ConvertResults(unit) :
              ( /\ conversion_result.status = "success"
                /\ ConvertFinish(unit, conversion_result) )
              => /\ conversion_result.output_file
                        = join(SavePath, splitext(FileNameOf(unit.url))[1] \o ".mp4")
                 /\ conversion_result.output_file # unit.path
                 /\ downloads'[unit.url].output_path = conversion_result.output_file
                 /\ IF enable_transcription
                    THEN /\ downloads'[unit.url].status = "transcribing"
                         /\ downloads'[unit.url].progress_percentage = 0
                         /\ transcription_executor'.queue
                                = Append(transcription_executor.queue,
                                         [job |-> unit.job, url |-> unit.url,
                                          path |-> conversion_result.output_file])
                         /\ transcription_executor'.workers
                                = transcription_executor.workers
                    ELSE /\ downloads'[unit.url].status = "finalized"
                         /\ downloads'[unit.url].progress_percentage = 100
                         /\ transcription_executor' = transcription_executor
                         /\ StageRank(unit.job)' = 0]_vars

\* a transcoded a.mkv waits for transcription: the record is TRANSCRIBING at 0
\* on a.mp4, written by the success branch, and the toggle has been switched off
\* since
C34_Witness ==
    /\ ~enable_transcription
    /\ \E i \in 1..Len(transcription_executor.queue) :
           LET unit == transcription_executor.queue[i]
           IN  /\ unit.path = join(SavePath, "a.mp4")
               /\ downloads[unit.url].status = TRANSCRIBING
               /\ downloads[unit.url].progress_percentage = 0
               /\ downloads[unit.url].output_path = unit.path
               /\ downloads[unit.url].message
                      = "Conversion completed. Queueing for transcription..."

\* C35: a convert_video result of status failed and an exception leaving
\* convert_video both leave the record FAILED and queue no transcription; the
\* error_message is the result's error in the first case and "Conversion system
\* error for <file>: <exception>" in the second, and the two are never equal.
C35_FailedAndRaisedDiffer ==
    [][\A unit \in conversion_executor.workers :
          \A conversion_result \in ConvertResults(unit) :
              ( /\ conversion_result.status \in {"failed", "raise"}
                /\ ConvertFinish(unit, conversion_result) )
              => /\ downloads'[unit.url].status = "failed"
                 /\ transcription_executor' = transcription_executor
                 /\ StageRank(unit.job)' = 0
                 /\ IF conversion_result.status = "failed"
                    THEN /\ downloads'[unit.url].error_message = conversion_result.error
                         /\ \A exc \in {"[Errno 13] Permission denied", SubmitError,
                                         "'error'"} :
                                conversion_result.error
                                    # ConvertSystemError(unit.path, exc).kwargs.error_message
                    ELSE downloads'[unit.url].error_message
                             = "Conversion system error for " \o unit.path \o ": "
                                   \o conversion_result.exc]_vars

\* one job failed on a result of status failed (the fetched file was gone) and
\* the other on an exception that left convert_video
C35_Witness ==
    \E failed, raised \in DOMAIN downloads :
        /\ downloads[failed].status = FAILED
        /\ downloads[failed].error_message = "file_not_found"
        /\ downloads[raised].status = FAILED
        /\ downloads[raised].error_message
               = "Conversion system error for " \o FetchedPath(raised)
                     \o ": [Errno 13] Permission denied"

\* C36: after each progress_callback(progress_val, speed, eta) of download_video
\* the record of the job's key holds that progress_percentage, download_speed
\* and eta as reported, and its status is DOWNLOADING.
C36_TickStoredVerbatim ==
    [][\A unit \in download_executor.workers :
          \A progress_val \in DownloadPercents, speed \in DownloadSpeeds,
             eta \in DownloadEtas :
              DownloadTick(unit, progress_val, speed, eta)
              => /\ downloads'[unit.url].progress_percentage = progress_val
                 /\ downloads'[unit.url].download_speed = speed
                 /\ downloads'[unit.url].eta = eta
                 /\ downloads'[unit.url].status = "downloading"]_vars

\* C37: as long as shutdown has not been called, every record with an active
\* status has a unit of its key queued or running in some pool.
C37_ActiveRecordHasUnit ==
    shutdown_pc = "idle"
    => \A url \in DOMAIN downloads :
           downloads[url].status \in NonTerminal => UnitsOf(url) # {}

\* C38: every record that is FINALIZED, SKIPPED or DOWNLOAD_COMPLETED has an
\* output_path, and a job queued by transcribe_video_endpoint, whose key is the
\* file, is FINALIZED with an output_path when its transcribe body ends.
C38_SuccessRecordsNameArtifact ==
    [][/\ \A url \in DOMAIN downloads' :
              downloads'[url].status \in {"finalized", "skipped", "download_completed"}
              => downloads'[url].output_path # None
       /\ \A unit \in transcription_executor.workers :
              ( unit.url \in TranscribePaths /\ TranscribeFinish(unit) )
              => /\ downloads'[unit.url].status = "finalized"
                 /\ downloads'[unit.url].output_path # None]_vars

\* C40: transcribe_video_endpoint queues a transcription of a file only when no
\* transcription unit for that file is queued or running.
C40_OneTranscriptionPerFile ==
    [][\A c \in DOMAIN call, title \in TranscribeTitles :
          TranscribeQueue(c, title)
          => \A unit \in TranscriptionUnits : unit.path # call[c].url]_vars

\* C39: when convert_video returns status skipped or converted for a fetched
\* file that is an MP4 (in any letter case), the transcode body leaves the
\* record SKIPPED, FINALIZED or TRANSCRIBING.
C39_Mp4NeverFailsInTranscode ==
    [][\A unit \in conversion_executor.workers :
          \A conversion_result \in ConvertResults(unit) :
              ( /\ conversion_result.status \in {"skipped", "converted"}
                /\ lower(splitext(split(unit.path)[2])[2]) = ".mp4"
                /\ ConvertFinish(unit, conversion_result) )
              => downloads'[unit.url].status
                     \in {"skipped", "finalized", "transcribing"}]_vars

=============================================================================
